---- MODULE Spec2Model ----
(***************************************************************************)
(* Vertex Color Editor (VertexColorEditor.py): the two operators Apply and *)
(* Get, the depsgraph handler selection_update_handler (the Live-Sync      *)
(* Guard) and register()/unregister(), over a mesh whose faces are lists   *)
(* of corners (loops), each corner referring to one vertex.                *)
(*                                                                         *)
(* A channel value x in [0.0, 1.0] is the integer x * ChannelMax, so that  *)
(* the threshold 0.001 is Epsilon and values closer than the threshold can *)
(* be told apart.  A colour is a 4-tuple <<r, g, b, a>> of channels.  A    *)
(* colour layer stores the colour assigned to a corner as assigned (line   *)
(* 55); how the host lays a layer out in memory is outside the repository. *)
(***************************************************************************)
EXTENDS Integers, Sequences, FiniteSets, TLC

VARIABLES
    faces,                  \* bm.faces: the faces, each the list of its corners' vertices
    layers,                 \* bm.loops.layers.color: the colour layers, in order
    active,                 \* index in layers of bm.loops.layers.color.active (0: none)
    select,                 \* the vertices v of bm.verts with v.select
    vertex_color,           \* props.vertex_color, the Current Color Value
    auto_pick_color,        \* props.auto_pick_color, the Auto-Sync Flag
    mode,                   \* context.mode
    active_object,          \* type of context.active_object ("NONE": no object)
    classes_registered,     \* whether the classes of `classes` are registered
    props_registered,       \* whether bpy.types.Scene.vertex_color_props exists
    menu_funcs,             \* VIEW3D_MT_edit_mesh_context_menu's draw functions
    depsgraph_update_post,  \* bpy.app.handlers.depsgraph_update_post
    last,                   \* the operation that ran last and what it returned and reported
    init_layers,            \* the number of colour layers the mesh started with
    guard_writes            \* writes of line 215 since the last step that was not the handler

vars == <<faces, layers, active, select, vertex_color, auto_pick_color, mode,
          active_object, classes_registered, props_registered, menu_funcs,
          depsgraph_update_post, last, init_layers, guard_writes>>

(***************************************************************************)
(* Bounds and program constants                                            *)
(***************************************************************************)
\* vertices of the mesh that belong to no face
NumLoose == 1

\* vertex_color: min=0.0, max=1.0 (1.0 is ChannelMax units)
ChannelMin == 0
ChannelMax == 10000

\* the threshold 0.001 of the handler's comparison, in the same units
Epsilon == 10

\* default=(1.0, 1.0, 1.0, 1.0)
White == <<ChannelMax, ChannelMax, ChannelMax, ChannelMax>>
\* differs from White by 0.0005 in alpha only: within the threshold
NearWhite == <<ChannelMax, ChannelMax, ChannelMax, ChannelMax - 5>>
\* (0.2, 0.4, 0.6, 1.0)
Sample == <<2000, 4000, 6000, ChannelMax>>

Colors == {White, NearWhite, Sample}

\* one triangle; two triangles on the same three vertices, wound in opposite
\* directions, so that every vertex has a corner in each face
Meshes == { << <<1, 2, 3>> >>,
            << <<1, 2, 3>>, <<3, 2, 1>> >> }

FaceVerts(fs) == UNION { {fs[f][k] : k \in 1..Len(fs[f])} : f \in 1..Len(fs) }
MaxFaceVert(fs) == CHOOSE m \in FaceVerts(fs) : \A v \in FaceVerts(fs) : v <= m
\* bm.verts: the vertices of the faces and NumLoose vertices of no face
Verts == 1..(MaxFaceVert(faces) + NumLoose)

\* the corners of the mesh, as <<face, corner>> positions
Loops == UNION { { <<f, k>> : k \in 1..Len(faces[f]) } : f \in 1..Len(faces) }

Abs(x) == IF x < 0 THEN -x ELSE x

(***************************************************************************)
(* Colour layers                                                           *)
(***************************************************************************)
\* a layer holding colour c in every corner
UniformData(fs, c) == [f \in 1..Len(fs) |-> [k \in 1..Len(fs[f]) |-> c]]

\* a layer whose corners differ within a face and across the corners of a vertex
MixedData(fs) ==
    [f \in 1..Len(fs) |-> [k \in 1..Len(fs[f]) |->
        IF (f + k) % 3 = 0 THEN Sample
        ELSE IF (f + k) % 3 = 1 THEN White ELSE NearWhite]]

\* bm.loops.layers.color.new("Col"): the corners of a new layer are white
NewLayer(fs) == [name |-> "Col", data |-> UniformData(fs, White)]

InitLayers(fs) ==
    { <<>>,
      << [name |-> "Col", data |-> UniformData(fs, White)] >>,
      << [name |-> "Col", data |-> MixedData(fs)] >>,
      << [name |-> "Base", data |-> UniformData(fs, Sample)],
         [name |-> "Paint", data |-> MixedData(fs)] >> }

\* loop[color_layer] for the corner at position p
LoopColor(p) == layers[active].data[p[1]][p[2]]

NoRecord == [op |-> "none", result |-> "NONE", report |-> "NONE",
             count |-> 0, wrote |-> FALSE, fault |-> FALSE, error |-> "NONE"]

Init ==
    /\ faces \in Meshes
    /\ layers \in InitLayers(faces)
    /\ active = Len(layers)
    /\ select = {}
    /\ vertex_color = White
    /\ auto_pick_color = FALSE
    /\ mode = "OBJECT"
    /\ active_object = "MESH"
    /\ classes_registered = FALSE
    /\ props_registered = FALSE
    /\ menu_funcs = <<>>
    /\ depsgraph_update_post = <<>>
    /\ last = NoRecord
    /\ init_layers = Len(layers)
    /\ guard_writes = 0

Range(s) == { s[i] : i \in 1..Len(s) }

(***************************************************************************)
(* The operators: MESH_OT_apply_vertex_color, MESH_OT_get_vertex_color     *)
(***************************************************************************)
\* poll(): the operators run in mesh edit mode with a mesh object active
Poll == mode = "EDIT_MESH" /\ active_object = "MESH"

\* a layer created on every call
AlwaysNewLayer(ls) == Append(ls, NewLayer(faces))

\* if not bm.loops.layers.color: bm.loops.layers.color.new("Col")
EnsureLayer(ls) == IF Len(ls) = 0 THEN << NewLayer(faces) >> ELSE ls

\* bm.loops.layers.color.active once the layer list is ls
ActiveOf(ls) == IF active = 0 THEN Len(ls) ELSE active

\* selected_verts = [v for v in bm.verts if v.select]
SelectedVerts == { v \in Verts : v \in select }

\* a pass that stops after the first face
ApplyToFirstFace(data, color_to_apply) ==
    [f \in 1..Len(faces) |-> [k \in 1..Len(faces[f]) |->
        IF f = 1 /\ faces[f][k] \in select THEN color_to_apply ELSE data[f][k]]]

\* for face in bm.faces: for loop in face.loops:
\*     if loop.vert.select: loop[color_layer] = color_to_apply
ApplyToLoops(data, color_to_apply) ==
    [f \in 1..Len(faces) |-> [k \in 1..Len(faces[f]) |->
        IF faces[f][k] \in select THEN color_to_apply ELSE data[f][k]]]

\* the layer list Apply leaves: the layer is ensured before the selection is looked at
ApplyLayers ==
    LET ls == EnsureLayer(layers)
        a  == ActiveOf(ls)
    IN  IF SelectedVerts = {} THEN ls
        ELSE [ls EXCEPT ![a].data = ApplyToLoops(@, vertex_color)]

ApplyRecord ==
    IF SelectedVerts = {}
    THEN [op |-> "Apply", result |-> "CANCELLED", report |-> "WARNING:NoSelection",
          count |-> 0, wrote |-> FALSE, fault |-> FALSE, error |-> "NONE"]
    ELSE [op |-> "Apply", result |-> "FINISHED", report |-> "INFO:Applied",
          count |-> Cardinality(SelectedVerts), wrote |-> FALSE, fault |-> FALSE, error |-> "NONE"]

Apply ==
    /\ classes_registered
    /\ Poll
    /\ layers' = ApplyLayers
    /\ active' = ActiveOf(EnsureLayer(layers))
    /\ last' = ApplyRecord
    /\ guard_writes' = 0
    /\ UNCHANGED <<faces, select, vertex_color, auto_pick_color, mode, active_object,
                   classes_registered, props_registered, menu_funcs,
                   depsgraph_update_post, init_layers>>

NoLoop == <<0, 0>>

\* position q comes before position p in the enumeration of faces, then corners
Before(q, p) == q[1] < p[1] \/ (q[1] = p[1] /\ q[2] < p[2])

\* a scan that does not stop at the first match: the last selected corner wins
LastSelectedLoop(f, k) ==
    LET found == { p \in Loops : faces[p[1]][p[2]] \in select /\ ~ Before(p, <<f, k>>) }
    IN  IF found = {} THEN NoLoop
        ELSE CHOOSE p \in found : \A q \in found : q = p \/ Before(q, p)

\* for face in bm.faces: for loop in face.loops: if loop.vert.select: ... return
\* the position of the first corner, from corner k of face f on, whose vertex is selected
RECURSIVE FirstSelectedLoop(_, _)
FirstSelectedLoop(f, k) ==
    IF f > Len(faces) THEN NoLoop
    ELSE IF k > Len(faces[f]) THEN FirstSelectedLoop(f + 1, 1)
    ELSE IF faces[f][k] \in select THEN <<f, k>>
    ELSE FirstSelectedLoop(f, k + 1)

\* a channel assigned to vertex_color stays within min=0.0, max=1.0
Clamp(x) == IF x < ChannelMin THEN ChannelMin ELSE IF x > ChannelMax THEN ChannelMax ELSE x

\* props.vertex_color = (color[0], color[1], color[2], color[3])
ColorTuple(color) == << Clamp(color[1]), Clamp(color[2]), Clamp(color[3]), Clamp(color[4]) >>

GetRecord ==
    IF Len(layers) = 0
    THEN [op |-> "Get", result |-> "CANCELLED", report |-> "WARNING:NoColorData",
          count |-> 0, wrote |-> FALSE, fault |-> FALSE, error |-> "NONE"]
    ELSE IF FirstSelectedLoop(1, 1) = NoLoop
    THEN [op |-> "Get", result |-> "CANCELLED", report |-> "WARNING:NoSelection",
          count |-> 0, wrote |-> FALSE, fault |-> FALSE, error |-> "NONE"]
    ELSE [op |-> "Get", result |-> "FINISHED", report |-> "INFO:Got",
          count |-> 0, wrote |-> FALSE, fault |-> FALSE, error |-> "NONE"]

Get ==
    /\ classes_registered
    /\ Poll
    /\ vertex_color' =
         IF Len(layers) # 0 /\ FirstSelectedLoop(1, 1) # NoLoop
         THEN ColorTuple(LoopColor(FirstSelectedLoop(1, 1)))
         ELSE vertex_color
    /\ last' = GetRecord
    /\ guard_writes' = 0
    /\ UNCHANGED <<faces, layers, active, select, auto_pick_color, mode, active_object,
                   classes_registered, props_registered, menu_funcs,
                   depsgraph_update_post, init_layers>>

(***************************************************************************)
(* selection_update_handler, the Live-Sync Guard                           *)
(***************************************************************************)
\* a comparison without the threshold
DiffersAtAll(current, color) == current # color

\* a comparison that always asks for the write
AlwaysDiffers(current, color) == TRUE

\* abs(props.vertex_color[i] - color[i]) > 0.001 for some channel i
Differs(current, color) ==
    \/ Abs(current[1] - color[1]) > Epsilon
    \/ Abs(current[2] - color[2]) > Epsilon
    \/ Abs(current[3] - color[3]) > Epsilon
    \/ Abs(current[4] - color[4]) > Epsilon

\* the handler gets as far as the try block
GuardReads ==
    /\ auto_pick_color
    /\ ~ (mode # "EDIT_MESH" \/ active_object = "NONE" \/ active_object # "MESH")

\* a handler without the except clause
HandlerRaises(fault) == IF fault THEN "Exception" ELSE "NONE"

\* except: pass -- what leaves the handler when a step of the try block raised
HandlerError(fault) == "NONE"

\* whether the handler reaches line 215; fault: a step of the try block raises
GuardWrites(fault) ==
    /\ GuardReads
    /\ ~ fault
    /\ Len(layers) # 0
    /\ FirstSelectedLoop(1, 1) # NoLoop
    /\ Differs(vertex_color, LoopColor(FirstSelectedLoop(1, 1)))

Guard(fault) ==
    /\ "selection_update_handler" \in Range(depsgraph_update_post)
    /\ vertex_color' =
         IF GuardWrites(fault)
         THEN ColorTuple(LoopColor(FirstSelectedLoop(1, 1)))
         ELSE vertex_color
    /\ last' = [op |-> "Guard", result |-> "NONE", report |-> "NONE", count |-> 0,
                wrote |-> GuardWrites(fault),
                fault |-> (GuardReads /\ fault),
                error |-> IF GuardReads THEN HandlerError(fault) ELSE "NONE"]
    /\ guard_writes' =
         IF GuardWrites(fault)
         THEN (IF guard_writes < 2 THEN guard_writes + 1 ELSE guard_writes)
         ELSE guard_writes
    /\ UNCHANGED <<faces, layers, active, select, auto_pick_color, mode, active_object,
                   classes_registered, props_registered, menu_funcs,
                   depsgraph_update_post, init_layers>>

(***************************************************************************)
(* register(), unregister()                                                *)
(***************************************************************************)
\* if selection_update_handler not in depsgraph_update_post: append it
AppendHandler(hs) ==
    IF "selection_update_handler" \notin Range(hs)
    THEN Append(hs, "selection_update_handler") ELSE hs

\* list.remove(x): s without its first x
RECURSIVE RemoveFirst(_, _)
RemoveFirst(s, x) ==
    IF s = <<>> THEN <<>>
    ELSE IF Head(s) = x THEN Tail(s)
    ELSE <<Head(s)>> \o RemoveFirst(Tail(s), x)

\* an unregister() that leaves the handler in place
KeepHandler(hs) == hs

\* if selection_update_handler in depsgraph_update_post: remove it
RemoveHandler(hs) ==
    IF "selection_update_handler" \in Range(hs)
    THEN RemoveFirst(hs, "selection_update_handler") ELSE hs

\* register_class raises ValueError for a class that is registered already,
\* before anything else of register() runs
Register ==
    /\ IF classes_registered
       THEN /\ last' = [op |-> "register", result |-> "NONE", report |-> "NONE",
                        count |-> 0, wrote |-> FALSE, fault |-> FALSE, error |-> "ValueError"]
            /\ UNCHANGED <<classes_registered, props_registered, menu_funcs,
                           depsgraph_update_post>>
       ELSE /\ classes_registered' = TRUE
            /\ props_registered' = TRUE
            /\ menu_funcs' = Append(menu_funcs, "draw_vertex_color_menu")
            /\ depsgraph_update_post' = AppendHandler(depsgraph_update_post)
            /\ last' = [op |-> "register", result |-> "NONE", report |-> "NONE",
                        count |-> 0, wrote |-> FALSE, fault |-> FALSE, error |-> "NONE"]
    /\ guard_writes' = 0
    /\ UNCHANGED <<faces, layers, active, select, vertex_color, auto_pick_color, mode,
                   active_object, init_layers>>

\* the handler and the menu entry are removed first; del of the scene property
\* raises AttributeError when register() has not set it
Unregister ==
    /\ depsgraph_update_post' = RemoveHandler(depsgraph_update_post)
    /\ menu_funcs' = RemoveFirst(menu_funcs, "draw_vertex_color_menu")
    /\ IF ~ props_registered
       THEN /\ last' = [op |-> "unregister", result |-> "NONE", report |-> "NONE",
                        count |-> 0, wrote |-> FALSE, fault |-> FALSE, error |-> "AttributeError"]
            /\ UNCHANGED <<classes_registered, props_registered>>
       ELSE /\ props_registered' = FALSE
            /\ classes_registered' = FALSE
            /\ last' = [op |-> "unregister", result |-> "NONE", report |-> "NONE",
                        count |-> 0, wrote |-> FALSE, fault |-> FALSE,
                        error |-> IF classes_registered THEN "NONE" ELSE "RuntimeError"]
    /\ guard_writes' = 0
    /\ UNCHANGED <<faces, layers, active, select, vertex_color, auto_pick_color, mode,
                   active_object, init_layers>>

(***************************************************************************)
(* The host: selection, the panel's properties, mode and active object     *)
(***************************************************************************)
HostRecord == [op |-> "host", result |-> "NONE", report |-> "NONE",
               count |-> 0, wrote |-> FALSE, fault |-> FALSE, error |-> "NONE"]

\* the user selects or deselects vertex v in edit mode (v.select)
SelectVert(v) ==
    /\ Poll
    /\ select' = IF v \in select THEN select \ {v} ELSE select \cup {v}
    /\ last' = HostRecord
    /\ guard_writes' = 0
    /\ UNCHANGED <<faces, layers, active, vertex_color, auto_pick_color, mode,
                   active_object, classes_registered, props_registered, menu_funcs,
                   depsgraph_update_post, init_layers>>

\* the user picks colour c in the panel: row.prop(props, "vertex_color")
SetVertexColor(c) ==
    /\ props_registered
    /\ Poll
    /\ vertex_color' = ColorTuple(c)
    /\ last' = HostRecord
    /\ guard_writes' = 0
    /\ UNCHANGED <<faces, layers, active, select, auto_pick_color, mode, active_object,
                   classes_registered, props_registered, menu_funcs,
                   depsgraph_update_post, init_layers>>

\* the user toggles the panel's checkbox: layout.prop(props, "auto_pick_color")
ToggleAutoPick ==
    /\ props_registered
    /\ Poll
    /\ auto_pick_color' = ~ auto_pick_color
    /\ last' = HostRecord
    /\ guard_writes' = 0
    /\ UNCHANGED <<faces, layers, active, select, vertex_color, mode, active_object,
                   classes_registered, props_registered, menu_funcs,
                   depsgraph_update_post, init_layers>>

\* the user enters or leaves edit mode on the active mesh object (context.mode)
ToggleMode ==
    /\ active_object = "MESH"
    /\ mode' = IF mode = "EDIT_MESH" THEN "OBJECT" ELSE "EDIT_MESH"
    /\ last' = HostRecord
    /\ guard_writes' = 0
    /\ UNCHANGED <<faces, layers, active, select, vertex_color, auto_pick_color,
                   active_object, classes_registered, props_registered, menu_funcs,
                   depsgraph_update_post, init_layers>>

ObjectTypes == {"MESH", "CAMERA", "NONE"}

\* in object mode the user makes an object of type t, or no object, active
SetActiveObject(t) ==
    /\ mode = "OBJECT"
    /\ t # active_object
    /\ active_object' = t
    /\ last' = HostRecord
    /\ guard_writes' = 0
    /\ UNCHANGED <<faces, layers, active, select, vertex_color, auto_pick_color, mode,
                   classes_registered, props_registered, menu_funcs,
                   depsgraph_update_post, init_layers>>

Next ==
    \/ Apply
    \/ Get
    \/ \E fault \in BOOLEAN : Guard(fault)
    \/ Register
    \/ Unregister
    \/ \E v \in Verts : SelectVert(v)
    \/ \E c \in Colors : SetVertexColor(c)
    \/ ToggleAutoPick
    \/ ToggleMode
    \/ \E t \in ObjectTypes : SetActiveObject(t)

Spec == Init /\ [][Next]_vars

TypeOK ==
    /\ faces \in Meshes
    /\ active \in 0..Len(layers)
    /\ select \subseteq Verts
    /\ vertex_color \in Colors
    /\ auto_pick_color \in BOOLEAN
    /\ mode \in {"OBJECT", "EDIT_MESH"}
    /\ active_object \in ObjectTypes
    /\ guard_writes \in 0..2

(***************************************************************************)
(* Properties                                                              *)
(***************************************************************************)
\* the vertex of the corner at position p
VertOf(p) == faces[p[1]][p[2]]

\* the handler occurs n times in the host's handler list
HandlerCount ==
    Cardinality({ i \in 1..Len(depsgraph_update_post) :
                    depsgraph_update_post[i] = "selection_update_handler" })

\* C1: Apply with a non-empty selection finishes; afterwards every corner of a
\* selected vertex holds the Current Color Value in the active layer, every other
\* corner of every layer that existed holds the colour it held, and the other
\* corners of a layer Apply had to create hold that layer's initial colour.
ApplyCompleteAndFrame ==
    [][ (last'.op = "Apply" /\ select # {}) =>
          /\ last'.result = "FINISHED"
          /\ last'.count = Cardinality(select)
          /\ active' \in 1..Len(layers')
          /\ \A p \in Loops : VertOf(p) \in select =>
                layers'[active'].data[p[1]][p[2]] = vertex_color
          /\ \A i \in 1..Len(layers) : \A p \in Loops :
                (VertOf(p) \notin select \/ i # active') =>
                    layers'[i].data[p[1]][p[2]] = layers[i].data[p[1]][p[2]]
          /\ Len(layers) = 0 =>
                \A p \in Loops : VertOf(p) \notin select =>
                    layers'[1].data[p[1]][p[2]] = White
      ]_vars

\* C1 witness: the mesh had no layer, one vertex shared by two faces is selected,
\* Apply reported 1 vertex, both its corners hold the applied colour and the
\* corners of the other vertices do not.
ApplySharedVertexDone ==
    /\ last.op = "Apply" /\ last.result = "FINISHED" /\ last.count = 1
    /\ init_layers = 0 /\ Len(layers) = 1
    /\ vertex_color = Sample
    /\ \E v \in select :
          /\ \E p \in Loops, q \in Loops :
                p[1] # q[1] /\ VertOf(p) = v /\ VertOf(q) = v
                /\ LoopColor(p) = Sample /\ LoopColor(q) = Sample
          /\ \A p \in Loops : VertOf(p) # v => LoopColor(p) = White

\* C2: Apply with no vertex selected is cancelled with the NoSelection warning and
\* leaves the corner colours, the list of colour layers and the Current Color
\* Value as they were.
ApplyNoSelectionMutatesNothing ==
    [][ (last'.op = "Apply" /\ select = {}) =>
          /\ last'.result = "CANCELLED"
          /\ last'.report = "WARNING:NoSelection"
          /\ layers' = layers
          /\ vertex_color' = vertex_color
      ]_vars

\* C3: a Get that follows a finished Apply, nothing in between, finishes and leaves
\* the Current Color Value equal to the colour that was applied.
ApplyThenGetRoundTrip ==
    [][ (last.op = "Apply" /\ last.result = "FINISHED" /\ last'.op = "Get") =>
          /\ last'.result = "FINISHED"
          /\ vertex_color' = vertex_color
      ]_vars

\* C4: when a layer exists and some corner belongs to a selected vertex, Get
\* finishes and the Current Color Value becomes the colour of the corner of a
\* selected vertex that no other such corner precedes in face-then-corner order.
GetFirstCorner ==
    [][ (last'.op = "Get" /\ Len(layers) # 0 /\ \E p \in Loops : VertOf(p) \in select) =>
          /\ last'.result = "FINISHED"
          /\ \E p \in Loops :
                /\ VertOf(p) \in select
                /\ \A q \in Loops : VertOf(q) \in select => ~ Before(q, p)
                /\ vertex_color' = LoopColor(p)
      ]_vars

\* C4 witness: Get finished with two vertices selected whose corners hold
\* different colours; the Current Color Value is the colour of the first corner
\* and a later corner of a selected vertex holds another colour.
GetAmongDivergentCorners ==
    /\ last.op = "Get" /\ last.result = "FINISHED"
    /\ Cardinality(select) >= 2
    /\ \E p \in Loops, q \in Loops :
          /\ VertOf(p) \in select /\ VertOf(q) \in select /\ VertOf(p) # VertOf(q)
          /\ \A r \in Loops : VertOf(r) \in select => ~ Before(r, p)
          /\ Before(p, q)
          /\ vertex_color = LoopColor(p)
          /\ LoopColor(q) # LoopColor(p)

\* C5: Get without a colour layer is cancelled with NoColorData; Get with a layer
\* and no selected vertex is cancelled with NoSelection; both leave the Current
\* Color Value and the layers as they were; with a layer and a selected vertex
\* Get finishes.
GetOutcomes ==
    [][ last'.op = "Get" =>
          /\ Len(layers) = 0 =>
                /\ last'.result = "CANCELLED" /\ last'.report = "WARNING:NoColorData"
                /\ vertex_color' = vertex_color /\ layers' = layers
          /\ (Len(layers) # 0 /\ select = {}) =>
                /\ last'.result = "CANCELLED" /\ last'.report = "WARNING:NoSelection"
                /\ vertex_color' = vertex_color /\ layers' = layers
          /\ (Len(layers) # 0 /\ select # {}) => last'.result = "FINISHED"
      ]_vars

\* C6: in a run of handler invocations that nothing else interrupts, the handler
\* writes the Current Color Value at most once.
GuardWritesAtMostOnce == guard_writes <= 1

\* C6 witness: the handler wrote, was invoked again and did not write.
GuardQuietAfterWrite ==
    /\ last.op = "Guard" /\ ~ last.wrote /\ ~ last.fault
    /\ guard_writes = 1
    /\ auto_pick_color

\* C7: a handler invocation with no colour layer, with no mesh object active,
\* outside mesh edit mode, or in which a step of the read raised, leaves no error
\* and leaves the Current Color Value, the Auto-Sync Flag and the layers as they
\* were.
GuardSilentOnFailure ==
    [][ (/\ last'.op = "Guard"
         /\ \/ Len(layers) = 0
            \/ active_object # "MESH"
            \/ mode # "EDIT_MESH"
            \/ last'.fault) =>
          /\ last'.error = "NONE"
          /\ vertex_color' = vertex_color
          /\ auto_pick_color' = auto_pick_color
          /\ layers' = layers /\ active' = active
      ]_vars

\* C7 witness: the flag is on, a corner of a selected vertex holds a colour beyond
\* the threshold from the Current Color Value, and the handler's read raised.
GuardFaulted ==
    /\ last.op = "Guard" /\ last.fault
    /\ auto_pick_color /\ Poll /\ Len(layers) # 0
    /\ FirstSelectedLoop(1, 1) # NoLoop
    /\ Differs(vertex_color, LoopColor(FirstSelectedLoop(1, 1)))

\* C8: the mesh never has more colour layers than max(1, the number it started
\* with); the number changes only when Apply finds no layer and creates the one
\* layer "Col"; Get and the handler leave the layers as they are.
LayerCreationIdempotent ==
    /\ [](Len(layers) <= (IF init_layers < 1 THEN 1 ELSE init_layers))
    /\ [][ Len(layers') # Len(layers) =>
             /\ last'.op = "Apply"
             /\ Len(layers) = 0
             /\ Len(layers') = 1
             /\ layers'[1].name = "Col"
         ]_vars
    /\ [][ last'.op \in {"Get", "Guard"} => (layers' = layers /\ active' = active) ]_vars
    /\ [][ (last'.op = "Apply" /\ Len(layers) # 0) =>
             (Len(layers') = Len(layers) /\ active' = active) ]_vars

\* C8 witness: the mesh started without a layer, Apply created one, and a later
\* Apply on the mesh finished with that one layer.
LayerReused ==
    /\ init_layers = 0 /\ Len(layers) = 1 /\ layers[1].name = "Col"
    /\ last.op = "Apply" /\ last.result = "FINISHED"
    /\ \E p \in Loops, q \in Loops :
          /\ LoopColor(p) # White /\ LoopColor(q) # White
          /\ LoopColor(p) # LoopColor(q)

\* what C9 lists: the flag is on, mesh edit mode with a mesh object active, a layer
\* exists, a corner belongs to a selected vertex and a channel of the Current
\* Color Value differs by more than the threshold from the first such corner's
GuardWriteCondition ==
    /\ auto_pick_color
    /\ mode = "EDIT_MESH" /\ active_object = "MESH"
    /\ Len(layers) # 0
    /\ \E p \in Loops :
          /\ VertOf(p) \in select
          /\ \A q \in Loops : VertOf(q) \in select => ~ Before(q, p)
          /\ \E i \in 1..4 : Abs(vertex_color[i] - LoopColor(p)[i]) > Epsilon

\* the first corner of a selected vertex holds colour c
FirstCornerHolds(c) ==
    \E p \in Loops :
        /\ VertOf(p) \in select
        /\ \A q \in Loops : VertOf(q) \in select => ~ Before(q, p)
        /\ LoopColor(p) = c

\* C9: a handler invocation changes the Current Color Value if and only if the
\* write condition holds; the new value is the first corner's colour; the handler
\* changes no corner colour and not the selection.
GuardWritesIff ==
    [][ last'.op = "Guard" =>
          /\ (vertex_color' # vertex_color) <=> GuardWriteCondition
          /\ (vertex_color' # vertex_color) => FirstCornerHolds(vertex_color')
          /\ layers' = layers /\ select' = select
      ]_vars

\* C9 as amended: a handler invocation changes the Current Color Value if and
\* only if the write condition holds and no step of its read raises.
GuardWritesIffNoFault ==
    [][ last'.op = "Guard" =>
          /\ (vertex_color' # vertex_color) <=> (GuardWriteCondition /\ ~ last'.fault)
          /\ (vertex_color' # vertex_color) => FirstCornerHolds(vertex_color')
          /\ layers' = layers /\ select' = select
      ]_vars

\* C9 witness: the handler wrote, and the Current Color Value is the colour of the
\* first corner of a selected vertex although a later corner holds another colour.
GuardWrote ==
    /\ last.op = "Guard" /\ last.wrote
    /\ FirstCornerHolds(vertex_color)
    /\ \E q \in Loops : VertOf(q) \in select /\ LoopColor(q) # vertex_color

\* C10: after every register() and unregister() the handler is in the host's list
\* at most once, it is absent after every unregister(), and an unregister() that
\* follows an unregister() completes without error.
HandlerLifecycle ==
    [][ last'.op \in {"register", "unregister"} =>
          /\ Cardinality({ i \in 1..Len(depsgraph_update_post') :
                 depsgraph_update_post'[i] = "selection_update_handler" }) <= 1
          /\ last'.op = "unregister" =>
                "selection_update_handler" \notin Range(depsgraph_update_post')
          /\ (last.op = "unregister" /\ last.error = "NONE" /\ last'.op = "unregister") =>
                last'.error = "NONE"
      ]_vars

\* C10 as amended: the handler is in the host's list at most once, it is there
\* after a register() that completed, it is absent after every unregister(),
\* whether that call completed or raised, and an unregister() that follows an
\* unregister() leaves the list as it is.
HandlerRemovalIdempotent ==
    /\ [](HandlerCount <= 1)
    /\ []((last.op = "register" /\ last.error = "NONE") => HandlerCount = 1)
    /\ [](last.op = "unregister" =>
             "selection_update_handler" \notin Range(depsgraph_update_post))
    /\ [][ (last.op = "unregister" /\ last'.op = "unregister") =>
             depsgraph_update_post' = depsgraph_update_post ]_vars

\* C10 witness: the add-on was registered (the flag was set in its panel) and
\* unregistered, and unregister() was called again; it raised and the handler is
\* not in the list.
UnregisterRepeated ==
    /\ last.op = "unregister" /\ last.error = "AttributeError"
    /\ auto_pick_color
    /\ ~ classes_registered
    /\ HandlerCount = 0

====
